---- MODULE Spec2Model ----
(***************************************************************************)
(* IoTDataStream of metropolia_dashboard.py: the seven bounded global      *)
(* series (collections.deque with maxlen), the per-sensor state table, the *)
(* constructor that seeds the series, generate_tick, get_current_data and  *)
(* get_aqi_color.                                                          *)
(*                                                                         *)
(* Numbers are fixed-point with one decimal: the integer 505 stands for    *)
(* 50.5.  The traffic factor is kept in hundredths (80 stands for 0.8).    *)
(* random.gauss and random.randint are modelled by sets of outcomes.  One  *)
(* behaviour lets the draws of one site (rng) range over that site's       *)
(* outcome set; every other draw returns its centre.  Every entry of a     *)
(* series carries the number of the generate_tick call that appended it.   *)
(***************************************************************************)
EXTENDS Integers, Sequences, FiniteSets, TLC

VARIABLES
    pc,                 \* position of the thread running __init__ / generate_tick
    constructed,        \* TRUE once __init__ has returned
    error,              \* exception raised by __init__, "" when none
    max_points,         \* self.max_points
    timestamps, temperature, humidity, aqi,
    traffic_density, vehicle_speed, energy_consumption,   \* the seven deques
    sensor_values,      \* self.sensor_values: sensor -> readings
    loop_i,             \* iterations of `for _ in range(50)` started
    nticks,             \* generate_tick calls started since construction began
    uticks,             \* generate_tick calls made by update_dashboard
    now,                \* generate_tick's local `now` (its hour)
    traffic_factor,     \* generate_tick's local traffic_factor (hundredths)
    todo,               \* sensors the loop of lines 91-98 has still to update
    clock,              \* the wall clock's hour, what datetime.now().hour reads
    rng,                \* the draw site whose outcomes vary in this behaviour
    data,               \* <<>> or <<d>>: a dict returned by generate_tick that a caller holds
    data_seen,          \* what that dict read as when generate_tick returned it
    view,               \* <<>> or <<d>>: a dict a concurrent get_current_data returned
    color_arg,          \* argument of a get_aqi_color call
    color_ret,          \* its result, "" before the call
    sensors,            \* self.sensors: sensor -> location and type
    label_ret           \* the AQI label update_dashboard looks up, "" before

vars == <<pc, constructed, error, max_points, timestamps, temperature, humidity, aqi,
          traffic_density, vehicle_speed, energy_consumption, sensor_values, loop_i,
          nticks, uticks, now, traffic_factor, todo, clock, rng, data, data_seen,
          view, color_arg, color_ret, sensors, label_ret>>

series == <<timestamps, temperature, humidity, aqi, traffic_density, vehicle_speed,
            energy_consumption>>

(***************************************************************************)
(* Bounds of the model and constants of the program.                       *)
(***************************************************************************)
MaxCap == 3             \* small capacities 0..MaxCap are tried, besides the default
MaxTicks == 4           \* generate_tick calls by update_dashboard after construction
MaxAqiArg == 3100       \* get_aqi_color is applied to 0.0 .. 310.0
DefaultMaxPoints == 500
InitTicks == 50

Max(a, b) == IF a >= b THEN a ELSE b
Min(a, b) == IF a <= b THEN a ELSE b

\* Two of the eight sensors of self.sensors: the loops treat every sensor alike.
Sensors == {"downtown", "airport"}

\* Their entries in self.sensors (degrees in thousandths).
SensorTable ==
    [downtown |-> [lat |-> 40758, lon |-> -73985, type |-> "environmental"],
     airport |-> [lat |-> 40641, lon |-> -73778, type |-> "transportation"]]

Channels == {"timestamps", "temperature", "humidity", "aqi", "traffic_density",
             "vehicle_speed", "energy_consumption"}

NoSite == <<"none", "-", "-">>
TickSites == {<<"tick", c, "-">> : c \in {"temperature", "humidity", "traffic_factor", "aqi",
                                           "traffic_density", "vehicle_speed",
                                           "energy_consumption"}}
WalkSites == {<<"walk", f, s>> : f \in {"temperature", "aqi", "traffic_density",
                                         "vehicle_speed"}, s \in Sensors}
SeedSites == {<<"init", f, s>> : f \in {"temperature", "humidity", "aqi", "traffic_density",
                                         "vehicle_speed", "energy_kw"}, s \in Sensors}

\* The outcomes of a draw at `site`: `outcomes` when the behaviour varies that
\* site, the centre alone otherwise.
Draw(site, outcomes, centre) == IF rng = site THEN outcomes ELSE {centre}

(***************************************************************************)
(* collections.deque(maxlen=n).                                            *)
(***************************************************************************)
\* deque(maxlen=n) raises ValueError("maxlen must be non-negative") for n < 0.
deque_new(n) == IF n < 0 THEN "ValueError" ELSE ""

\* Mutants of deque_append: no eviction; eviction at the wrong end.
deque_append_unbounded(d, n, x) == Append(d, x)
deque_append_drop_newest(d, n, x) == IF Len(d) >= n THEN d ELSE Append(d, x)

\* deque.append on a deque of maximum length n: the item goes to the right end
\* and, when the deque has outgrown n, the leftmost item is dropped.
deque_append(d, n, x) ==
    LET a == Append(d, x)
    IN  IF Len(a) > n THEN Tail(a) ELSE a

(***************************************************************************)
(* The arithmetic of generate_tick.                                        *)
(***************************************************************************)
\* 1000 * sin((hour - 6) * pi / 12), rounded, for hour 0..23.
Sin1000(hour) ==
    <<-1000, -966, -866, -707, -500, -259, 0, 259, 500, 707, 866, 966,
      1000, 966, 866, 707, 500, 259, 0, -259, -500, -707, -866, -966>>[hour + 1]

\* base_temp = 20 + 8 * sin(...), to one decimal.
base_temp(hour) == 200 + (8 * Sin1000(hour) + 50) \div 100

\* 60 - 10 * sin(...), to one decimal.
base_humidity(hour) == 600 - (10 * Sin1000(hour) + 50) \div 100

\* The centre of _get_avg_traffic_factor for an hour, in hundredths.
traffic_regime(hour) ==
    IF (7 <= hour /\ hour <= 9) \/ (17 <= hour /\ hour <= 19) THEN 80
    ELSE IF 10 <= hour /\ hour <= 16 THEN 50
    ELSE 20

\* _get_avg_traffic_factor: the regime's centre plus the jitter j.
get_avg_traffic_factor(hour, j) == traffic_regime(hour) + j

\* base_aqi = 40 + traffic_factor * 30.
base_aqi(tf) == 400 + tf * 3

\* max(0, base_aqi + gauss).
aqi_reading(tf, g) == Max(0, base_aqi(tf) + g)

\* max(5, 60 - traffic_factor * 30 + gauss).
speed_reading(tf, g) == Max(50, 600 - tf * 3 + g)

\* Mutant of energy_base: the business hours end before 18.
energy_base_until_17(hour) == 4000 + (IF 9 <= hour /\ hour < 18 THEN 2000 ELSE 600)

\* energy_base = 400 + 200 * (1 if 9 <= hour <= 18 else 0.3).
energy_base(hour) == 4000 + (IF 9 <= hour /\ hour <= 18 THEN 2000 ELSE 600)

\* The per-sensor updates of lines 92-98.
sensor_temperature(v, g) == v + g
sensor_aqi_unfloored(v, g) == v + g   \* mutant: the floor of line 93 is missing
sensor_aqi(v, g) == Max(0, v + g)
sensor_traffic_density(v, r) == Max(0, Min(1000, v + r))
sensor_vehicle_speed(v, g) == Max(50, v + g)

(***************************************************************************)
(* Outcomes of the random draws (the centre of each is drawn as well).     *)
(***************************************************************************)
GaussTick == [temperature |-> {-15, 0, 15}, humidity |-> {-30, 0, 30},
              traffic_factor |-> {-10, 0, 10}, aqi |-> {-700, 0, 50},
              vehicle_speed |-> {-700, 0, 50}, energy_consumption |-> {-500, 0, 500}]
RandintTick == {300, 620, 950}
GaussWalk == [temperature |-> {-5, 0, 5}, aqi |-> {-100, 0, 100},
              vehicle_speed |-> {-100, 0, 100}]
RandintWalk == {-50, 0, 50}
GaussSeed == [temperature |-> {-30, 0, 30}, humidity |-> {-100, 0, 100},
              aqi |-> {-510, 0, 150}, vehicle_speed |-> {-360, 0, 100},
              energy_kw |-> {-1000, 0, 1000}]
RandintSeed == {200, 500, 800}

\* The readings the model follows a sensor through: a walk that would leave
\* its window is not taken.
WalkWindow == [temperature |-> 210 .. 230, aqi |-> -100 .. 700,
               traffic_density |-> -50 .. 1050, vehicle_speed |-> -50 .. 600]

\* _init_sensor for sensor s: the set of dicts it can return.
init_sensor(s) ==
    [temperature : {220 + g : g \in Draw(<<"init", "temperature", s>>, GaussSeed.temperature, 0)},
     humidity : {500 + g : g \in Draw(<<"init", "humidity", s>>, GaussSeed.humidity, 0)},
     aqi : {500 + g : g \in Draw(<<"init", "aqi", s>>, GaussSeed.aqi, 0)},
     traffic_density : Draw(<<"init", "traffic_density", s>>, RandintSeed, 500),
     vehicle_speed : {400 + g : g \in Draw(<<"init", "vehicle_speed", s>>, GaussSeed.vehicle_speed, 0)},
     energy_kw : {5000 + g : g \in Draw(<<"init", "energy_kw", s>>, GaussSeed.energy_kw, 0)}]

\* The order in which `for sensor_id in self.sensors` visits the sensors.
SensorOrder == <<"downtown", "airport">>

(***************************************************************************)
(* get_current_data.  list(self.x) is a new list holding the deque's items *)
(* of that moment; `self.sensors` and `self.sensor_values` are the         *)
(* generator's own dicts.  A value of the returned dict is therefore       *)
(* either a copy or a reference, and a reference reads as the object it    *)
(* names reads now.                                                        *)
(***************************************************************************)
Live(name) ==
    CASE name = "timestamps" -> timestamps
      [] name = "temperature" -> temperature
      [] name = "humidity" -> humidity
      [] name = "aqi" -> aqi
      [] name = "traffic_density" -> traffic_density
      [] name = "vehicle_speed" -> vehicle_speed
      [] name = "energy_consumption" -> energy_consumption
      [] name = "sensors" -> sensors
      [] name = "sensor_values" -> sensor_values

\* Mutant of list_of: the deque itself is handed out.
list_alias(name) == [kind |-> "ref", of |-> name, items |-> <<>>]

\* list(self.<name>)
list_of(name) == [kind |-> "copy", of |-> name, items |-> Live(name)]

\* self.<name>
same_object(name) == [kind |-> "ref", of |-> name, items |-> <<>>]

\* What a value of a returned dict reads as in the current state.
Read(x) == IF x.kind = "ref" THEN Live(x.of) ELSE x.items

get_current_data ==
    [timestamps |-> list_of("timestamps"),
     temperature |-> list_of("temperature"),
     humidity |-> list_of("humidity"),
     aqi |-> list_of("aqi"),
     traffic_density |-> list_of("traffic_density"),
     vehicle_speed |-> list_of("vehicle_speed"),
     energy_consumption |-> list_of("energy_consumption"),
     sensors |-> same_object("sensors"),
     sensor_values |-> same_object("sensor_values")]

\* The readings of a returned dict, key by key.
Reading(d) == [k \in Channels \cup {"sensor_values"} |-> Read(d[k])]

(***************************************************************************)
(* get_aqi_color and the colour scale.                                     *)
(***************************************************************************)
AQI_COLORS == <<"#00E400", "#FFFF00", "#FF7E00", "#FF0000", "#8F3F97", "#7E0023">>

\* Mutant of get_aqi_color: the first breakpoint is exclusive.
get_aqi_color_strict(v) ==
    IF v < 500 THEN "#00E400"
    ELSE IF v <= 1000 THEN "#FFFF00"
    ELSE IF v <= 1500 THEN "#FF7E00"
    ELSE IF v <= 2000 THEN "#FF0000"
    ELSE IF v <= 3000 THEN "#8F3F97"
    ELSE "#7E0023"

get_aqi_color(v) ==
    IF v <= 500 THEN "#00E400"
    ELSE IF v <= 1000 THEN "#FFFF00"
    ELSE IF v <= 1500 THEN "#FF7E00"
    ELSE IF v <= 2000 THEN "#FF0000"
    ELSE IF v <= 3000 THEN "#8F3F97"
    ELSE "#7E0023"

(***************************************************************************)
(* Initial states: IoTDataStream(max_points) is about to be called.        *)
(***************************************************************************)
Capacities == (-1 .. MaxCap) \cup {DefaultMaxPoints}
StartHours == {8, 13, 22}
Sites == {NoSite} \cup TickSites \cup WalkSites \cup SeedSites

NoSensorValues == [s \in Sensors |-> [temperature |-> 0, humidity |-> 0, aqi |-> 0,
                                      traffic_density |-> 0, vehicle_speed |-> 0,
                                      energy_kw |-> 0]]

Blank ==
    /\ constructed = FALSE /\ error = ""
    /\ timestamps = <<>> /\ temperature = <<>> /\ humidity = <<>> /\ aqi = <<>>
    /\ traffic_density = <<>> /\ vehicle_speed = <<>> /\ energy_consumption = <<>>
    /\ sensor_values = NoSensorValues
    /\ loop_i = 0 /\ nticks = 0 /\ uticks = 0 /\ now = 0 /\ traffic_factor = 0
    /\ todo = <<>> /\ data = <<>> /\ data_seen = <<>> /\ view = <<>>
    /\ sensors = <<>> /\ label_ret = ""

\* Behaviours that vary a draw site run with capacity 2 from 8 o'clock.
Init ==
    /\ Blank
    /\ pc = "new"
    /\ \E c \in Capacities, h \in StartHours, site \in Sites :
          /\ site # NoSite => c = 2 /\ h = 8
          /\ max_points = c /\ clock = h /\ rng = site
    /\ color_arg = 0 /\ color_ret = ""

stream_vars == <<constructed, error, max_points, timestamps, temperature, humidity, aqi,
                 traffic_density, vehicle_speed, energy_consumption, sensor_values, loop_i,
                 nticks, uticks, now, traffic_factor, todo, clock, rng, data, data_seen,
                 view>>

(***************************************************************************)
(* __init__, lines 24-53.                                                  *)
(***************************************************************************)
\* Lines 25-49: the deques are made (or deque raises) and every sensor gets
\* its first readings.
init_begin ==
    /\ pc = "new"
    /\ IF deque_new(max_points) # ""
       THEN /\ error' = deque_new(max_points)
            /\ pc' = "raised"
            /\ UNCHANGED <<sensors, sensor_values>>
       ELSE /\ sensors' = SensorTable
            /\ sensor_values' \in {f \in [Sensors -> UNION {init_sensor(s) : s \in Sensors}] :
                                     \A s \in Sensors : f[s] \in init_sensor(s)}
            /\ pc' = "seed"
            /\ UNCHANGED error
    /\ UNCHANGED <<constructed, max_points, timestamps, temperature, humidity, aqi,
                   traffic_density, vehicle_speed, energy_consumption, loop_i, nticks,
                   uticks, now, traffic_factor, todo, clock, rng, data, data_seen, view,
                   color_arg, color_ret, label_ret>>

\* Mutant of init_seed: the loop runs without calling generate_tick.
init_seed_idle ==
    /\ pc = "seed" /\ loop_i < InitTicks
    /\ loop_i' = loop_i + 1
    /\ UNCHANGED <<pc, constructed, error, max_points, timestamps, temperature, humidity,
                   aqi, traffic_density, vehicle_speed, energy_consumption, sensor_values,
                   nticks, uticks, now, traffic_factor, todo, clock, rng, data, data_seen,
                   view, color_arg, color_ret, sensors, label_ret>>

\* Lines 52-53: one more iteration of `for _ in range(50)` calls generate_tick.
init_seed ==
    /\ pc = "seed" /\ loop_i < InitTicks
    /\ loop_i' = loop_i + 1
    /\ pc' = "l67"
    /\ UNCHANGED <<constructed, error, max_points, timestamps, temperature, humidity, aqi,
                   traffic_density, vehicle_speed, energy_consumption, sensor_values,
                   nticks, uticks, now, traffic_factor, todo, clock, rng, data, data_seen,
                   view, color_arg, color_ret, sensors, label_ret>>

\* The loop is over: __init__ returns and the generator is in use.
init_return ==
    /\ pc = "seed" /\ loop_i = InitTicks
    /\ constructed' = TRUE
    /\ pc' = "ready"
    /\ UNCHANGED <<error, max_points, timestamps, temperature, humidity, aqi,
                   traffic_density, vehicle_speed, energy_consumption, sensor_values,
                   loop_i, nticks, uticks, now, traffic_factor, todo, clock, rng, data,
                   data_seen, view, color_arg, color_ret, sensors, label_ret>>

\* update_dashboard, line 315: the interval fires and generate_tick is called.
update_dashboard ==
    /\ pc = "ready" /\ uticks < MaxTicks
    /\ uticks' = uticks + 1
    /\ pc' = "l67"
    /\ UNCHANGED <<constructed, error, max_points, timestamps, temperature, humidity, aqi,
                   traffic_density, vehicle_speed, energy_consumption, sensor_values,
                   loop_i, nticks, now, traffic_factor, todo, clock, rng, data, data_seen,
                   view, color_arg, color_ret, sensors, label_ret>>

(***************************************************************************)
(* generate_tick, lines 65-100, one append (or one sensor) per step.       *)
(***************************************************************************)
Entry(v) == [tick |-> nticks, val |-> v]

\* Lines 67-68.
tick_timestamp ==
    /\ pc = "l67"
    /\ nticks' = nticks + 1
    /\ now' = clock
    /\ timestamps' = deque_append(timestamps, max_points, [tick |-> nticks + 1, val |-> clock])
    /\ pc' = "l74"
    /\ UNCHANGED <<constructed, error, max_points, temperature, humidity, aqi,
                   traffic_density, vehicle_speed, energy_consumption, sensor_values,
                   loop_i, uticks, traffic_factor, todo, clock, rng, data, data_seen, view,
                   color_arg, color_ret, sensors, label_ret>>

\* Lines 71-74.
tick_temperature ==
    /\ pc = "l74"
    /\ \E g \in Draw(<<"tick", "temperature", "-">>, GaussTick.temperature, 0) :
          temperature' = deque_append(temperature, max_points, Entry(base_temp(now) + g))
    /\ pc' = "l75"
    /\ UNCHANGED <<constructed, error, max_points, timestamps, humidity, aqi,
                   traffic_density, vehicle_speed, energy_consumption, sensor_values,
                   loop_i, nticks, uticks, now, traffic_factor, todo, clock, rng, data,
                   data_seen, view, color_arg, color_ret, sensors, label_ret>>

\* Mutant of tick_humidity: the humidity reading of the tick is not appended.
tick_humidity_skipped ==
    /\ pc = "l75"
    /\ pc' = "l78"
    /\ UNCHANGED <<constructed, error, max_points, timestamps, temperature, humidity, aqi,
                   traffic_density, vehicle_speed, energy_consumption, sensor_values,
                   loop_i, nticks, uticks, now, traffic_factor, todo, clock, rng, data,
                   data_seen, view, color_arg, color_ret, sensors, label_ret>>

\* Line 75.
tick_humidity ==
    /\ pc = "l75"
    /\ \E g \in Draw(<<"tick", "humidity", "-">>, GaussTick.humidity, 0) :
          humidity' = deque_append(humidity, max_points, Entry(base_humidity(now) + g))
    /\ pc' = "l78"
    /\ UNCHANGED <<constructed, error, max_points, timestamps, temperature, aqi,
                   traffic_density, vehicle_speed, energy_consumption, sensor_values,
                   loop_i, nticks, uticks, now, traffic_factor, todo, clock, rng, data,
                   data_seen, view, color_arg, color_ret, sensors, label_ret>>

\* Lines 78-80: _get_avg_traffic_factor reads the clock itself.
tick_aqi ==
    /\ pc = "l78"
    /\ \E j \in Draw(<<"tick", "traffic_factor", "-">>, GaussTick.traffic_factor, 0),
          g \in Draw(<<"tick", "aqi", "-">>, GaussTick.aqi, 0) :
          /\ traffic_factor' = get_avg_traffic_factor(clock, j)
          /\ aqi' = deque_append(aqi, max_points, Entry(aqi_reading(traffic_factor', g)))
    /\ pc' = "l83"
    /\ UNCHANGED <<constructed, error, max_points, timestamps, temperature, humidity,
                   traffic_density, vehicle_speed, energy_consumption, sensor_values,
                   loop_i, nticks, uticks, now, todo, clock, rng, data, data_seen, view,
                   color_arg, color_ret, sensors, label_ret>>

\* Line 83.
tick_traffic_density ==
    /\ pc = "l83"
    /\ \E r \in Draw(<<"tick", "traffic_density", "-">>, RandintTick, 620) :
          traffic_density' = deque_append(traffic_density, max_points, Entry(r))
    /\ pc' = "l84"
    /\ UNCHANGED <<constructed, error, max_points, timestamps, temperature, humidity, aqi,
                   vehicle_speed, energy_consumption, sensor_values, loop_i, nticks,
                   uticks, now, traffic_factor, todo, clock, rng, data, data_seen, view,
                   color_arg, color_ret, sensors, label_ret>>

\* Line 84.
tick_vehicle_speed ==
    /\ pc = "l84"
    /\ \E g \in Draw(<<"tick", "vehicle_speed", "-">>, GaussTick.vehicle_speed, 0) :
          vehicle_speed' = deque_append(vehicle_speed, max_points,
                                        Entry(speed_reading(traffic_factor, g)))
    /\ pc' = "l87"
    /\ UNCHANGED <<constructed, error, max_points, timestamps, temperature, humidity, aqi,
                   traffic_density, energy_consumption, sensor_values, loop_i, nticks,
                   uticks, now, traffic_factor, todo, clock, rng, data, data_seen, view,
                   color_arg, color_ret, sensors, label_ret>>

\* Lines 87-88; the loop over the sensors is next.
tick_energy ==
    /\ pc = "l87"
    /\ \E g \in Draw(<<"tick", "energy_consumption", "-">>, GaussTick.energy_consumption, 0) :
          energy_consumption' = deque_append(energy_consumption, max_points,
                                             Entry(energy_base(now) + g))
    /\ todo' = SensorOrder
    /\ pc' = "l91"
    /\ UNCHANGED <<constructed, error, max_points, timestamps, temperature, humidity, aqi,
                   traffic_density, vehicle_speed, sensor_values, loop_i, nticks, uticks,
                   now, traffic_factor, clock, rng, data, data_seen, view, color_arg,
                   color_ret, sensors, label_ret>>

\* Mutant of tick_sensor: the humidity of the sensor drifts with its temperature.
tick_sensor_humidity ==
    /\ pc = "l91" /\ todo # <<>>
    /\ LET s == Head(todo)
           v == sensor_values[s]
       IN  \E gt \in Draw(<<"walk", "temperature", s>>, GaussWalk.temperature, 0),
              ga \in Draw(<<"walk", "aqi", s>>, GaussWalk.aqi, 0),
              rd \in Draw(<<"walk", "traffic_density", s>>, RandintWalk, 0),
              gs \in Draw(<<"walk", "vehicle_speed", s>>, GaussWalk.vehicle_speed, 0) :
              /\ gt # 0 => v.temperature + gt \in WalkWindow.temperature
              /\ ga # 0 => v.aqi + ga \in WalkWindow.aqi
              /\ rd # 0 => v.traffic_density + rd \in WalkWindow.traffic_density
              /\ gs # 0 => v.vehicle_speed + gs \in WalkWindow.vehicle_speed
              /\ sensor_values' =
                    [sensor_values EXCEPT ![s] =
                        [v EXCEPT !.temperature = sensor_temperature(v.temperature, gt),
                                  !.humidity = v.humidity + gt,
                                  !.aqi = sensor_aqi(v.aqi, ga),
                                  !.traffic_density = sensor_traffic_density(v.traffic_density, rd),
                                  !.vehicle_speed = sensor_vehicle_speed(v.vehicle_speed, gs)]]
    /\ todo' = Tail(todo)
    /\ UNCHANGED <<pc, constructed, error, max_points, timestamps, temperature, humidity,
                   aqi, traffic_density, vehicle_speed, energy_consumption, loop_i, nticks,
                   uticks, now, traffic_factor, clock, rng, data, data_seen, view,
                   color_arg, color_ret, sensors, label_ret>>

\* Lines 91-98, one iteration: the four readings of one sensor move.
tick_sensor ==
    /\ pc = "l91" /\ todo # <<>>
    /\ LET s == Head(todo)
           v == sensor_values[s]
       IN  \E gt \in Draw(<<"walk", "temperature", s>>, GaussWalk.temperature, 0),
              ga \in Draw(<<"walk", "aqi", s>>, GaussWalk.aqi, 0),
              rd \in Draw(<<"walk", "traffic_density", s>>, RandintWalk, 0),
              gs \in Draw(<<"walk", "vehicle_speed", s>>, GaussWalk.vehicle_speed, 0) :
              /\ gt # 0 => v.temperature + gt \in WalkWindow.temperature
              /\ ga # 0 => v.aqi + ga \in WalkWindow.aqi
              /\ rd # 0 => v.traffic_density + rd \in WalkWindow.traffic_density
              /\ gs # 0 => v.vehicle_speed + gs \in WalkWindow.vehicle_speed
              /\ sensor_values' =
                    [sensor_values EXCEPT ![s] =
                        [v EXCEPT !.temperature = sensor_temperature(v.temperature, gt),
                                  !.aqi = sensor_aqi(v.aqi, ga),
                                  !.traffic_density = sensor_traffic_density(v.traffic_density, rd),
                                  !.vehicle_speed = sensor_vehicle_speed(v.vehicle_speed, gs)]]
    /\ todo' = Tail(todo)
    /\ UNCHANGED <<pc, constructed, error, max_points, timestamps, temperature, humidity,
                   aqi, traffic_density, vehicle_speed, energy_consumption, loop_i, nticks,
                   uticks, now, traffic_factor, clock, rng, data, data_seen, view,
                   color_arg, color_ret, sensors, label_ret>>

\* Line 100: return self.get_current_data().  __init__ drops the result;
\* update_dashboard keeps it as `data`, and a caller may still hold the dict
\* of an earlier call.
tick_return ==
    /\ pc = "l91" /\ todo = <<>>
    /\ IF constructed
       THEN /\ pc' = "ready"
            /\ \/ /\ data' = <<get_current_data>>
                  /\ data_seen' = <<Reading(get_current_data)>>
               \/ /\ data # <<>>
                  /\ UNCHANGED <<data, data_seen>>
       ELSE /\ pc' = "seed"
            /\ UNCHANGED <<data, data_seen>>
    /\ UNCHANGED <<constructed, error, max_points, timestamps, temperature, humidity, aqi,
                   traffic_density, vehicle_speed, energy_consumption, sensor_values,
                   loop_i, nticks, uticks, now, traffic_factor, todo, clock, rng, view,
                   color_arg, color_ret, sensors, label_ret>>

generate_tick ==
    \/ tick_timestamp
    \/ tick_temperature
    \/ tick_humidity
    \/ tick_aqi
    \/ tick_traffic_density
    \/ tick_vehicle_speed
    \/ tick_energy
    \/ tick_sensor
    \/ tick_return

Next ==
    \/ init_begin
    \/ init_seed
    \/ init_return
    \/ update_dashboard
    \/ generate_tick

Spec == Init /\ [][Next]_vars

(***************************************************************************)
(* A second thread calls get_current_data on the constructed generator     *)
(* (Dash serves callbacks from several threads), at any point of a         *)
(* generate_tick call.                                                     *)
(***************************************************************************)
concurrent_read ==
    /\ constructed
    /\ view' = <<get_current_data>>
    /\ UNCHANGED <<pc, constructed, error, max_points, timestamps, temperature, humidity,
                   aqi, traffic_density, vehicle_speed, energy_consumption, sensor_values,
                   loop_i, nticks, uticks, now, traffic_factor, todo, clock, rng, data,
                   data_seen, color_arg, color_ret, sensors, label_ret>>

NextReader == Next \/ concurrent_read

\* The reader is followed in the behaviours in which every draw returns its centre.
InitReader == Init /\ rng = NoSite

SpecReader == InitReader /\ [][NextReader]_vars

(***************************************************************************)
(* The wall clock moves on to the next hour while a generate_tick call is  *)
(* running (after line 67 has read it): a call lasts far less than an      *)
(* hour, so it sees at most one such change.  Every hour of the day is a   *)
(* start hour; every draw returns its centre.                              *)
(***************************************************************************)
clock_advance ==
    /\ pc \in {"l74", "l75", "l78", "l83", "l84", "l87", "l91"}
    /\ clock = now
    /\ clock' = (clock + 1) % 24
    /\ UNCHANGED <<pc, constructed, error, max_points, timestamps, temperature, humidity,
                   aqi, traffic_density, vehicle_speed, energy_consumption, sensor_values,
                   loop_i, nticks, uticks, now, traffic_factor, todo, rng, data, data_seen,
                   view, color_arg, color_ret, sensors, label_ret>>

InitClock ==
    /\ Blank
    /\ pc = "new"
    /\ max_points = 2 /\ rng = NoSite
    /\ clock \in 0 .. 23
    /\ color_arg = 0 /\ color_ret = ""

NextClock == Next \/ clock_advance

SpecClock == InitClock /\ [][NextClock]_vars

(***************************************************************************)
(* get_aqi_color on its own: called once with an argument 0.0 .. 310.0.    *)
(***************************************************************************)
InitClassify ==
    /\ Blank
    /\ pc = "classify"
    /\ max_points = DefaultMaxPoints /\ clock = 8 /\ rng = NoSite
    /\ color_arg \in 0 .. MaxAqiArg
    /\ color_ret = ""

call_get_aqi_color ==
    /\ pc = "classify" /\ color_ret = ""
    /\ color_ret' = get_aqi_color(color_arg)
    /\ UNCHANGED <<pc, stream_vars, color_arg, sensors, label_ret>>

NextClassify == call_get_aqi_color

SpecClassify == InitClassify /\ [][NextClassify]_vars

(***************************************************************************)
(* The Air Quality Index card of update_dashboard, lines 340-342: the      *)
(* label and the colour shown for the newest AQI reading.                  *)
(***************************************************************************)
AQI_LABELS == <<"Good", "Moderate", "Unhealthy for Sensitive", "Unhealthy",
                "Very Unhealthy", "Hazardous">>

\* AQI_LABELS[min(int(v / 50), 5)], for v >= 0 (Python indexes from 0).
aqi_label(v) == AQI_LABELS[Min(v \div 500, 5) + 1]

aqi_card ==
    /\ pc = "classify" /\ color_ret = "" /\ label_ret = ""
    /\ label_ret' = aqi_label(color_arg)
    /\ color_ret' = get_aqi_color(color_arg)
    /\ UNCHANGED <<pc, stream_vars, color_arg, sensors>>

NextCard == aqi_card

SpecCard == InitClassify /\ [][NextCard]_vars

(***************************************************************************)
(* Properties.                                                             *)
(***************************************************************************)
\* The generate_tick call numbers of a series' entries, oldest first.
TickNumbers(q) == [i \in 1 .. Len(q) |-> q[i].tick]

\* The call numbers lo..hi in order.
Run(lo, hi) == [i \in 1 .. (hi - lo + 1) |-> lo + i - 1]

\* No generate_tick call is in flight and the deques exist.
AtRest == pc \in {"seed", "ready"}

\* C1 as stated: after N ticks performed on a generator of capacity C > 0
\* each of the seven series has length min(N, C), N counting the ticks its
\* user performed.
C1_LengthIsMinOfUserTicks ==
    (pc = "ready" /\ max_points > 0) =>
        \A i \in 1 .. 7 : Len(series[i]) = Min(uticks, max_points)

\* C1 amended: a generator of capacity C > 0 on which its user performed N
\* ticks holds min(50 + N, C) entries in each of the seven series, the 50
\* ticks of the constructor counted (after k of them, min(k, C)); no series
\* ever exceeds C.
C1_LengthIsMinOfAllTicks ==
    max_points > 0 =>
        /\ pc = "ready" =>
              \A i \in 1 .. 7 : Len(series[i]) = Min(InitTicks + uticks, max_points)
        /\ pc = "seed" =>
              \A i \in 1 .. 7 : Len(series[i]) = Min(loop_i, max_points)
        /\ \A i \in 1 .. 7 : Len(series[i]) <= max_points

\* C1's case: the default capacity, two ticks by the user, 52 entries.
C1_Witness ==
    /\ pc = "ready" /\ uticks = 2 /\ max_points > InitTicks + uticks
    /\ \A i \in 1 .. 7 : Len(series[i]) = InitTicks + 2

\* C2 as stated: after N ticks by the user the store holds exactly the
\* readings of the most recent min(N, C) ticks, oldest first.
C2_HoldsLastOfUserTicks ==
    (pc = "ready" /\ max_points > 0) =>
        \A i \in 1 .. 7 :
            TickNumbers(series[i]) =
                Run(nticks - Min(uticks, max_points) + 1, nticks)

\* C2 amended: the store holds exactly the readings of the most recent
\* min(50 + N, C) ticks in tick order, oldest first, the constructor's 50
\* ticks counted; after C + 1 ticks by the user the oldest timestamp is that
\* of the user's 2nd tick and the newest that of the (C+1)-th; with C = 3,
\* after 5 ticks each series holds the readings of ticks 3, 4, 5.
C2_HoldsLastOfAllTicks ==
    (AtRest /\ max_points > 0) =>
        /\ \A i \in 1 .. 7 :
              TickNumbers(series[i]) = Run(nticks - Min(nticks, max_points) + 1, nticks)
        /\ (pc = "ready" /\ uticks = max_points + 1) =>
              /\ timestamps[1].tick = InitTicks + 2
              /\ timestamps[Len(timestamps)].tick = InitTicks + max_points + 1
        /\ (max_points = 3 /\ nticks = 5) =>
              \A i \in 1 .. 7 : TickNumbers(series[i]) = <<3, 4, 5>>

\* C2's case: capacity 3 and 4 ticks by the user, the first of them evicted.
C2_Witness ==
    /\ pc = "ready" /\ max_points = 3 /\ uticks = 4
    /\ TickNumbers(timestamps) = <<InitTicks + 2, InitTicks + 3, InitTicks + 4>>

\* C3: on a constructed generator the seven series have the same length in
\* every state, between the appends of one tick included.
C3_EqualLengthsAlways ==
    constructed => \A i, j \in 1 .. 7 : Len(series[i]) = Len(series[j])

\* A dict of get_current_data is torn when its seven lists do not hold the
\* readings of the same ticks.
Torn(d) == \E a, b \in Channels : TickNumbers(Read(d[a])) # TickNumbers(Read(d[b]))

\* C4: a snapshot taken while a tick is in flight never shows some series
\* with the new tick's reading and others without it.
C4_NoTornSnapshot == view # <<>> => ~Torn(view[1])

\* C5: on a constructed generator every global AQI entry is >= 0, every
\* global vehicle speed >= 5, every global traffic density in [0,100], and
\* so are the AQI, vehicle speed and traffic density of every sensor.
C5_Floors ==
    constructed =>
        /\ \A i \in 1 .. Len(aqi) : aqi[i].val >= 0
        /\ \A i \in 1 .. Len(vehicle_speed) : vehicle_speed[i].val >= 50
        /\ \A i \in 1 .. Len(traffic_density) :
              traffic_density[i].val >= 0 /\ traffic_density[i].val <= 1000
        /\ \A s \in Sensors :
              /\ sensor_values[s].aqi >= 0
              /\ sensor_values[s].vehicle_speed >= 50
              /\ sensor_values[s].traffic_density >= 0
              /\ sensor_values[s].traffic_density <= 1000

\* C5's case: a sensor whose first AQI was drawn below zero sits on the floor.
C5_Witness ==
    /\ constructed /\ rng = <<"init", "aqi", "downtown">>
    /\ sensor_values["downtown"].aqi = 0

\* C6: the sensor readings read from a dict that generate_tick returned stay
\* what they were when it returned, whatever ticks follow.
C6_SensorReadingsKept ==
    data # <<>> => Read(data[1].sensor_values) = data_seen[1].sensor_values

\* C7: the seven lists of a dict that generate_tick returned keep their
\* length and their elements through every later append.
C7_ListsKept ==
    data # <<>> => \A c \in Channels : Read(data[1][c]) = data_seen[1][c]

\* C7's case: the dict is held while a later tick has evicted its oldest entry.
C7_Witness ==
    /\ data # <<>> /\ pc = "ready" /\ max_points > 0
    /\ Len(data_seen[1].timestamps) > 0
    /\ timestamps[1].tick > data_seen[1].timestamps[1].tick

\* C8: construction with a capacity <= 0 fails with an error and yields no
\* generator; only a capacity > 0 yields one.  (The code defines no
\* ConfigurationError: any exception raised by __init__ is taken for it.)
C8_NonPositiveCapacityRejected ==
    (max_points <= 0 /\ pc \in {"raised", "ready"}) => (error # "" /\ ~constructed)

\* C9 as stated: before its user's first tick a constructed generator has
\* seven empty series and its snapshot holds seven empty lists.
C9_FreshIsEmpty ==
    (pc = "ready" /\ uticks = 0) =>
        \A c \in Channels : Live(c) = <<>> /\ Read(get_current_data[c]) = <<>>

\* C9 amended: before its user's first tick a constructed generator of
\* capacity C holds in each of the seven series the min(50, C) most recent
\* of the 50 readings its constructor produced, and its snapshot returns
\* seven lists with exactly those entries.
C9_FreshIsSeeded ==
    (pc = "ready" /\ uticks = 0) =>
        \A c \in Channels :
            /\ Len(Live(c)) = Min(50, max_points)
            /\ TickNumbers(Live(c)) = Run(50 - Min(50, max_points) + 1, 50)
            /\ Read(get_current_data[c]) = Live(c)

\* C9's case: the default generator right after construction, 50 entries.
C9_Witness ==
    /\ pc = "ready" /\ uticks = 0 /\ max_points = DefaultMaxPoints
    /\ Len(Read(get_current_data.aqi)) = 50

\* The band of a colour: its place in AQI_COLORS (AQI_LABELS names the bands
\* in the same order).
Band(color) == CHOOSE i \in 1 .. 6 : AQI_COLORS[i] = color

\* C10: get_aqi_color gives every value >= 0 a band: 1 up to 50, 2 up to 100,
\* 3 up to 150, 4 up to 200, 5 up to 300, 6 above; a breakpoint belongs to
\* the lower band and the band never decreases as the value grows.
C10_Bands ==
    color_ret # "" =>
        /\ \E i \in 1 .. 6 : AQI_COLORS[i] = color_ret
        /\ Band(color_ret) =
              (IF color_arg <= 500 THEN 1
               ELSE IF color_arg <= 1000 THEN 2
               ELSE IF color_arg <= 1500 THEN 3
               ELSE IF color_arg <= 2000 THEN 4
               ELSE IF color_arg <= 3000 THEN 5
               ELSE 6)
        /\ color_arg > 0 => Band(get_aqi_color(color_arg - 1)) <= Band(color_ret)

\* C10's case: the breakpoint 50.0 is classified Good.
C10_Witness == color_arg = 500 /\ color_ret = "#00E400"

\* C11: after completed ticks the entries at one index of the seven series
\* come from the same tick, and every series holds one entry per tick it
\* still holds (no tick twice, none missing between its oldest and newest).
C11_SameTickAtEachIndex ==
    AtRest =>
        /\ \A i \in 1 .. 7 : \A k \in 1 .. Len(series[i]) :
              /\ k <= Len(timestamps)
              /\ series[i][k].tick = timestamps[k].tick
        /\ \A i \in 1 .. 7 : \A k \in 1 .. Len(series[i]) - 1 :
              series[i][k + 1].tick = series[i][k].tick + 1
        /\ \A i \in 1 .. 7 : Len(series[i]) = Len(timestamps)

\* C11's case: capacity 2, two ticks by the user: both seeded entries are
\* evicted from all seven series and each index holds one tick's readings.
C11_Witness ==
    /\ pc = "ready" /\ max_points = 2 /\ uticks = 2
    /\ \A i \in 1 .. 7 : series[i][1].tick = InitTicks + 1 /\ series[i][2].tick = InitTicks + 2

\* The newest entry of a series.
Last(q) == q[Len(q)]

\* C12 as stated: the noise-free energy base of a tick is 400 when its hour
\* is in 9..18 and 120 otherwise.
C12_EnergyBase400Or120 ==
    (pc = "l91" /\ rng = NoSite) =>
        Last(energy_consumption).val = (IF now \in 9 .. 18 THEN 4000 ELSE 1200)

\* C12 amended: the noise-free energy base of a tick is 600 when its hour
\* is in 9..18 (400 + 200 * 1.0) and 460 otherwise (400 + 200 * 0.3), for
\* every hour 0..23.
C12_EnergyBase600Or460 ==
    (pc = "l91" /\ rng = NoSite) =>
        /\ now \in 0 .. 23
        /\ Last(energy_consumption).tick = nticks
        /\ Last(energy_consumption).val = (IF now \in 9 .. 18 THEN 6000 ELSE 4600)

\* C12's case: a tick whose hour is 18, the last business hour, has appended 600.
C12_Witness ==
    /\ pc = "l91" /\ rng = NoSite /\ now = 18
    /\ Last(energy_consumption) = [tick |-> nticks, val |-> 6000]

\* C13: a step of a tick changes, of the per-sensor data, only temperature,
\* AQI, traffic density and vehicle speed: the humidity and the energy
\* reading of every sensor and the table self.sensors (identifiers,
\* coordinates, type) stay as they are, and no sensor is added or removed.
C13_TickFrame ==
    [][pc # "new" =>
          /\ sensors' = sensors
          /\ DOMAIN sensor_values' = DOMAIN sensor_values
          /\ \A s \in DOMAIN sensor_values :
                /\ DOMAIN sensor_values'[s] = DOMAIN sensor_values[s]
                /\ sensor_values'[s].humidity = sensor_values[s].humidity
                /\ sensor_values'[s].energy_kw = sensor_values[s].energy_kw]_vars

\* C13's case: ticks have moved a sensor's temperature while its humidity
\* and energy reading are the ones _init_sensor drew and the table is whole.
C13_Witness ==
    /\ pc = "ready" /\ uticks > 0 /\ rng = <<"walk", "temperature", "downtown">>
    /\ sensor_values["downtown"].temperature # 220
    /\ sensor_values["downtown"].humidity = 500
    /\ sensor_values["downtown"].energy_kw = 5000
    /\ sensors = SensorTable /\ DOMAIN sensor_values = Sensors

\* The band of a label: its place in AQI_LABELS.
LabelBand(label) == CHOOSE i \in 1 .. 6 : AQI_LABELS[i] = label

\* C14: the label update_dashboard shows for an AQI value names the band of
\* the colour get_aqi_color gives that value.
C14_LabelNamesColourBand ==
    label_ret # "" => LabelBand(label_ret) = Band(color_ret)

\* C15: the hour that selects the traffic regime of a tick (and so its AQI
\* and vehicle speed) is the hour of the tick's timestamp, temperature,
\* humidity and energy base, also when the clock passes an hour boundary
\* while the tick runs.  (Every draw returns its centre here, so the traffic
\* factor is its regime's centre.)
C15_OneHourPerTick ==
    (pc \in {"l83", "l84", "l87", "l91"} /\ rng = NoSite) =>
        /\ traffic_factor = traffic_regime(now)
        /\ Last(aqi).val = aqi_reading(traffic_regime(Last(timestamps).val), 0)

====
